---- MODULE Spec2Model ----
(***************************************************************************)
(* Model of EDGAR.py: the seen-set state store (module-level load and      *)
(* save_state) and the fetch / match / notify loop of main().              *)
(***************************************************************************)
EXTENDS Integers, Sequences, FiniteSets, TLC

(***************************************************************************)
(* Bounds of the model.                                                    *)
(***************************************************************************)
\* times the process is stopped (and then started again)
MaxStops == 1
\* records one fetch of one source returns at most
MaxRecs == 2
\* filings the upstream sources hold, all sources together
MaxFilings == 3

(***************************************************************************)
(* 1. CONFIGURATION                                                        *)
(***************************************************************************)
\* the names of CIKS, in the order of the dict
CIKS == <<"Kraken", "Gemini", "Ripple", "BitGo">>

Min(a, b) == IF a < b THEN a ELSE b

\* the companies the loop of main() goes over
Companies == CIKS

RSS_KEYWORDS == << <<"c","r","y","p","t","o">>,
                   <<"b","l","o","c","k","c","h","a","i","n">> >>

\* the form types main() notifies for
IPO_FORMS == {"S-1", "F-1", "D-1"}

(***************************************************************************)
(* What the upstream sources can return.  A filing's form type and an      *)
(* entry's text belong to the filing: they do not change between fetches.  *)
(***************************************************************************)
\* what the sources can hold: rows (accession, form) of a company's
\* submissions listing, and entries (id, title, summary) of the industry feed
AllFilings ==
    << [src |-> "Kraken", rec |-> <<"0001763926-24-000001", "S-1">>],
       [src |-> "RSS",
        rec |-> [id |-> "urn:1",
                 title |-> <<"B","l","o","c","k","c","h","a","i","n">>,
                 summary |-> <<"E","T","F">>]],
       [src |-> "Kraken", rec |-> <<"0001763926-24-000002", "10-K">>],
       [src |-> "RSS",
        rec |-> [id |-> "urn:2",
                 title |-> <<"B","a","n","k">>,
                 summary |-> <<"1","0","-","K">>]],
       [src |-> "Gemini", rec |-> <<"0001845748-24-000001", "F-1">>],
       [src |-> "Ripple", rec |-> <<"0001551332-24-000001", "8-K">>] >>

\* the filings of the model
Upstream == { AllFilings[n] : n \in 1..Min(MaxFilings, Len(AllFilings)) }

\* the records the source src can return
RecordsOf(src) == { u.rec : u \in { v \in Upstream : v.src = src } }

RECURSIVE SeqsUpTo(_, _)
\* the sequences over S of length at most n
SeqsUpTo(S, n) ==
    IF n = 0 THEN { <<>> }
    ELSE LET shorter == SeqsUpTo(S, n - 1)
         IN  shorter \cup { Append(s, x) : s \in shorter, x \in S }

\* what a fetch of the source src can return
ListsOf(src) == SeqsUpTo(RecordsOf(src), MaxRecs)

(***************************************************************************)
(* Keys of the seen set.                                                   *)
(***************************************************************************)
CompanyKey(name, acc) == <<"CIK", name, acc>>
RssKey(id) == <<"RSS", id>>

Range(s) == { s[n] : n \in DOMAIN s }

KeyOf(u) == IF u.src = "RSS" THEN RssKey(u.rec.id) ELSE CompanyKey(u.src, u.rec[1])

AllKeys == { KeyOf(u) : u \in Upstream }

(***************************************************************************)
(* str.lower() and the `in` test on strings, on sequences of characters.   *)
(***************************************************************************)
Upper == <<"A","B","C","D","E","F","G","H","I","J","K","L","M",
           "N","O","P","Q","R","S","T","U","V","W","X","Y","Z">>
LowerCs == <<"a","b","c","d","e","f","g","h","i","j","k","l","m",
             "n","o","p","q","r","s","t","u","v","w","x","y","z">>

LowerChar(c) ==
    IF \E n \in DOMAIN Upper : Upper[n] = c
    THEN LowerCs[CHOOSE n \in DOMAIN Upper : Upper[n] = c]
    ELSE c

Lower(s) == [n \in DOMAIN s |-> LowerChar(s[n])]

\* k in text
Contains(text, k) ==
    \E off \in 0..(Len(text) - Len(k)) :
        \A n \in DOMAIN k : text[off + n] = k[n]

\* the test of line 170
CompanyRelevant(form) == form \in IPO_FORMS

\* the test of lines 179-180
RssRelevant(entry) ==
    LET text == Lower(entry.title \o entry.summary)
    IN  \E n \in DOMAIN RSS_KEYWORDS : Contains(text, RSS_KEYWORDS[n])

(***************************************************************************)
(* 2. STATE MANAGEMENT: the state file and its JSON content.               *)
(***************************************************************************)
RECURSIVE SetToSeq(_)
SetToSeq(S) ==
    IF S = {} THEN <<>>
    ELSE LET x == CHOOSE y \in S : TRUE
         IN  <<x>> \o SetToSeq(S \ {x})

\* json.dump(list(seen), f): a JSON array, one array per key
JsonDump(s) == SetToSeq(s)

\* set(tuple(item) for item in json.load(f))
JsonLoad(data) == Range(data)

\* the state file: absent, holding a complete JSON text, or holding text
\* json.load rejects (empty or cut short)
NoFile == [kind |-> "missing", data |-> <<>>]
TornFile == [kind |-> "torn", data |-> <<>>]
GoodFile(data) == [kind |-> "valid", data |-> data]

\* the keys a load of the file would give; none when it cannot be read
Persisted(f) == IF f.kind = "valid" THEN JsonLoad(f.data) ELSE {}

(***************************************************************************)
(* extract_offering_details, lines 84-98.  A pattern is a sequence of      *)
(* items: a word, whose characters are to match one after the other, or a  *)
(* character class with the least and the most times it is to match; the   *)
(* last `group` items form group 1.                                        *)
(***************************************************************************)
UpperChar(c) ==
    IF \E n \in DOMAIN LowerCs : LowerCs[n] = c
    THEN Upper[CHOOSE n \in DOMAIN LowerCs : LowerCs[n] = c]
    ELSE c

\* \s
Space == {" ", "\t", "\n"}
\* [0-9]
Digit == {"0", "1", "2", "3", "4", "5", "6", "7", "8", "9"}

\* x?, x*, x+ and x{lo,hi} for a character class x
Opt(cls) == [word |-> <<>>, cls |-> cls, min |-> 0, max |-> 1, bounded |-> TRUE]
Star(cls) == [word |-> <<>>, cls |-> cls, min |-> 0, max |-> 0, bounded |-> FALSE]
Plus(cls) == [word |-> <<>>, cls |-> cls, min |-> 1, max |-> 1, bounded |-> FALSE]
Rep(cls, lo, hi) == [word |-> <<>>, cls |-> cls, min |-> lo, max |-> hi, bounded |-> TRUE]

\* the characters of w, one after the other, each a class of one character
Word(w) ==
    [word |-> [n \in DOMAIN w |-> {w[n]}], cls |-> {}, min |-> 0, max |-> 0, bounded |-> TRUE]

\* line 91: maximum\s+aggregate\s+offering\s+price\s*[:\-]?\s*\$?([0-9,]+\.?[0-9]*)
AMOUNT_RE ==
    [ items |-> << Word(<<"m","a","x","i","m","u","m">>),
                   Plus(Space),
                   Word(<<"a","g","g","r","e","g","a","t","e">>),
                   Plus(Space),
                   Word(<<"o","f","f","e","r","i","n","g">>),
                   Plus(Space),
                   Word(<<"p","r","i","c","e">>),
                   Star(Space), Opt({":", "-"}), Star(Space), Opt({"$"}),
                   Plus(Digit \cup {","}), Opt({"."}), Star(Digit) >>,
      group |-> 3 ]

\* line 95: proposed\s+ticker\s+symbol\s*[:\-]?\s*([A-Z]{1,5})
TICKER_RE ==
    [ items |-> << Word(<<"p","r","o","p","o","s","e","d">>),
                   Plus(Space),
                   Word(<<"t","i","c","k","e","r">>),
                   Plus(Space),
                   Word(<<"s","y","m","b","o","l">>),
                   Star(Space), Opt({":", "-"}), Star(Space),
                   Rep(Range(Upper), 1, 5) >>,
      group |-> 1 ]

\* a class matched without regard to case
FoldCase(cls) ==
    cls \cup { LowerChar(c) : c \in cls } \cup { UpperChar(c) : c \in cls }

\* an item matched without regard to case
FoldItem(it) ==
    [it EXCEPT !.cls = FoldCase(@),
               !.word = [n \in DOMAIN it.word |-> FoldCase(it.word[n])]]

\* re.IGNORECASE: the case of every item of the pattern is ignored
IgnoreCase(re) ==
    [re EXCEPT !.items = [n \in DOMAIN re.items |-> FoldItem(re.items[n])]]

\* how many characters of text from position i on are in cls, up to cap
Run(cls, text, i, cap) ==
    LET most == Min(cap, Len(text) - i + 1)
    IN  CHOOSE n \in 0..most :
            /\ \A j \in 0..(n - 1) : text[i + j] \in cls
            /\ n = most \/ text[i + n] \notin cls

NoMatch == [ok |-> FALSE, ends |-> <<>>]

\* the items of a pattern from the k-th on matched against text from
\* position i, each item taking as many characters as lets the rest match;
\* ends[n] is the position after the n-th of these items
RECURSIVE MatchItems(_, _, _, _)
MatchItems(items, k, text, i) ==
    IF k > Len(items) THEN [ok |-> TRUE, ends |-> <<>>]
    ELSE IF items[k].word # <<>> THEN
        LET w == items[k].word
            here == /\ i + Len(w) - 1 <= Len(text)
                    /\ \A n \in DOMAIN w : text[i + n - 1] \in w[n]
            rest == IF here THEN MatchItems(items, k + 1, text, i + Len(w)) ELSE NoMatch
        IN  IF rest.ok THEN [ok |-> TRUE, ends |-> <<i + Len(w)>> \o rest.ends]
            ELSE NoMatch
    ELSE LET it == items[k]
             most == Run(it.cls, text, i, IF it.bounded THEN it.max ELSE Len(text))
             rest == { <<n, MatchItems(items, k + 1, text, i + n)>> : n \in it.min..most }
             good == { r \in rest : r[2].ok }
         IN  IF good = {} THEN NoMatch
             ELSE LET best == CHOOSE g \in good : \A h \in good : h[1] <= g[1]
                  IN  [ok |-> TRUE, ends |-> <<i + best[1]>> \o best[2].ends]

\* re.search(pattern, text): the match at the leftmost position that has
\* one, and its group 1
Search(re, text) ==
    LET starts == { i \in 1..(Len(text) + 1) : MatchItems(re.items, 1, text, i).ok }
    IN  IF starts = {} THEN [found |-> FALSE, group |-> <<>>]
        ELSE LET i == CHOOSE s \in starts : \A t \in starts : s <= t
                 ends == MatchItems(re.items, 1, text, i).ends
                 last == Len(re.items)
                 from == IF last = re.group THEN i ELSE ends[last - re.group]
             IN  [found |-> TRUE, group |-> SubSeq(text, from, ends[last] - 1)]

\* the dict built from what the two searches found
Details(amount, ticker) ==
    [ k \in (IF amount.found THEN {"Amount"} ELSE {})
             \cup (IF ticker.found THEN {"Ticker"} ELSE {})
        |-> IF k = "Amount" THEN amount.group ELSE ticker.group ]

\* extract_offering_details(text), lines 84-98
ExtractOfferingDetails(text) ==
    Details(Search(IgnoreCase(AMOUNT_RE), text), Search(IgnoreCase(TICKER_RE), text))

(***************************************************************************)
(* The texts extract_offering_details is given: snippets of documents      *)
(* that state, or do not, an offering price and a ticker symbol.            *)
(***************************************************************************)

\* the phrase of the registration cover page
AmountExample ==
    <<"M","a","x","i","m","u","m"," ","A","g","g","r","e","g","a","t","e",
      " ","O","f","f","e","r","i","n","g"," ","P","r","i","c","e",":"," ",
      "$","5",",","0","0","0",",","0","0","0">>

\* lower case, no separator, no dollar sign, a decimal point
AmountLower ==
    <<"m","a","x","i","m","u","m"," ","a","g","g","r","e","g","a","t","e",
      " ","o","f","f","e","r","i","n","g"," ","p","r","i","c","e"," ","7",
      "5","0",".","5">>

\* upper case, runs of white space, a dash
AmountSpaced ==
    <<"M","A","X","I","M","U","M"," "," ","A","G","G","R","E","G","A","T",
      "E","\n","O","F","F","E","R","I","N","G","\t","P","R","I","C","E"," ",
      "-"," ","1",",","2",".">>

\* the label with no number after it
AmountUnset ==
    <<"M","a","x","i","m","u","m"," ","A","g","g","r","e","g","a","t","e",
      " ","O","f","f","e","r","i","n","g"," ","P","r","i","c","e",":"," ",
      "T","B","D">>

\* another label
AmountOtherLabel ==
    <<"M","a","x","i","m","u","m"," ","O","f","f","e","r","i","n","g"," ",
      "P","r","i","c","e",":"," ","$","9">>

\* the phrase of the registration cover page
TickerExample ==
    <<"P","r","o","p","o","s","e","d"," ","T","i","c","k","e","r"," ","S",
      "y","m","b","o","l",":"," ","A","B","C","D">>

\* lower-case label, a dash, one letter
TickerDash ==
    <<"p","r","o","p","o","s","e","d"," ","t","i","c","k","e","r"," ","s",
      "y","m","b","o","l"," ","-"," ","X">>

\* the label with a lower-case word after it
TickerUnset ==
    <<"P","r","o","p","o","s","e","d"," ","T","i","c","k","e","r"," ","S",
      "y","m","b","o","l",":"," ","t","b","d">>

\* the label with a capitalised word after it
TickerMixed ==
    <<"P","r","o","p","o","s","e","d"," ","T","i","c","k","e","r"," ","S",
      "y","m","b","o","l",":"," ","A","b","c"," ","I","n","c">>

\* more than five upper-case letters
TickerLong ==
    <<"P","r","o","p","o","s","e","d"," ","T","i","c","k","e","r"," ","S",
      "y","m","b","o","l",":"," ","A","B","C","D","E","F","G">>

\* the label with digits after it
TickerDigits ==
    <<"P","r","o","p","o","s","e","d"," ","T","i","c","k","e","r"," ","S",
      "y","m","b","o","l",":"," ","1","2","3">>

\* another label
TickerOtherLabel ==
    <<"T","i","c","k","e","r"," ","S","y","m","b","o","l",":"," ","Z","Z">>


AmountPhrases == {<<>>, AmountExample, AmountLower, AmountSpaced, AmountUnset, AmountOtherLabel}
TickerPhrases == {<<>>, TickerExample, TickerDash, TickerUnset, TickerMixed, TickerLong, TickerDigits, TickerOtherLabel}
Joins == {<<" ">>, <<".","\n">>}

\* a document states the two phrases in either order, other text around them
Snippets ==
    LET head == <<"S","-","1"," ">>
        tail == <<" ","T","i","t","l","e">>
    IN  UNION { { head \o a \o j \o t \o tail, head \o t \o j \o a \o tail } :
                <<a, t, j>> \in AmountPhrases \X TickerPhrases \X Joins }

VARIABLES
    pc,         \* where the process is: "down", "crashed", "fetch_company",
                \* "company_rec", "fetch_rss", "rss_rec", "save", "sleep",
                \* "blocked" (inside a call that never returns)
    idx,        \* index in Companies of the company being polled
    queue,      \* records of the current source still to go through
    seen,       \* the global seen
    file,       \* STATE_FILE
    sent,       \* history: per key, notifications the webhook accepted
    stops,      \* history: the stops of the process: how many, whether one
                \* came in the middle of a cycle, whether one lost keys
    hist,       \* history of the current cycle and of the one before
    snippet,    \* the text extract_offering_details is called with
    details     \* the dict it returns

vars == <<pc, idx, queue, seen, file, sent, stops, hist, snippet, details>>

\* the empty dict
NoDetails == [k \in {} |-> <<>>]

Sources == Range(Companies) \cup {"RSS"}

\* the key of a record of the source being processed
KeyOfFiling(name, rec) == CompanyKey(name, rec[1])
KeyOfEntry(entry) == RssKey(entry.id)

\* whether the filing behind a key passes the relevance test of its source
KeyRelevant(key) ==
    \E u \in Upstream :
        /\ KeyOf(u) = key
        /\ IF u.src = "RSS" THEN RssRelevant(u.rec) ELSE CompanyRelevant(u.rec[2])

(***************************************************************************)
(* History of a cycle.                                                     *)
(***************************************************************************)
\* the history at the start of a cycle; prev is the history of the cycle
\* before it when that cycle ran in this process, else NoPrev
NoPrev == [ran |-> FALSE, fetched |-> {}, complete |-> FALSE]

NewHist(start, prev) ==
    [ start     |-> start,   \* seen when the cycle started
      attempted |-> {},      \* sources whose fetch was called
      returned  |-> {},      \* sources whose fetch returned its records
      fetched   |-> {},      \* keys of the records fetched
      fails     |-> {},      \* kinds of call that failed: "fetch", "document",
                             \* "rejected", "post", "save"
      posts     |-> 0,       \* calls of requests.post
      notified  |-> {},      \* keys whose call of requests.post returned
      gone      |-> {},      \* keys of the records the loop body has gone
                             \* through, down to seen.add
      saves     |-> 0,       \* calls of save_state
      unflushed |-> FALSE,   \* a save_state of this process raised and none
                             \* has returned since (kept by SpecFlush)
      prev      |-> prev ]

PrevOf(h) == [ran |-> TRUE, fetched |-> h.fetched, complete |-> h.returned = Sources]

(***************************************************************************)
(* Module level, lines 44-48: the load of the state file at process start. *)
(***************************************************************************)
\* FileNotFoundError is the one exception caught
LoadRaises(f) == f.kind = "torn"

LoadSeen(f) == IF f.kind = "missing" THEN {} ELSE JsonLoad(f.data)

Init ==
    /\ pc = "fetch_company"
    /\ idx = 1
    /\ queue = <<>>
    /\ file = NoFile
    /\ seen = LoadSeen(NoFile)
    /\ sent = [k \in AllKeys |-> 0]
    /\ stops = [n |-> 0, mid |-> FALSE, lost |-> FALSE]
    /\ hist = NewHist(LoadSeen(NoFile), NoPrev)
    /\ snippet = <<>>
    /\ details = NoDetails

(***************************************************************************)
(* 5. MAIN LOOP                                                            *)
(***************************************************************************)
\* key looked up in the seen of the start of the cycle
AlreadySeenAtStart(key, s) == key \in hist.start

\* key in seen, lines 168 and 177
AlreadySeen(key, s) == key \in s

\* the exception leaves main: the process ends
AfterExceptionUncaught == "crashed"

\* lines 185-186: except Exception catches what a cycle raises and logs it;
\* the loop goes on to the sleep of line 188
AfterException == "sleep"

\* the set rebuilt from the new key
SeenAddAlone(s, key) == {key}

\* seen.add(key), lines 172 and 182
SeenAdd(s, key) == s \cup {key}

\* where the loops of lines 165-166 go once the records q are left
AfterFiling(q) ==
    IF q # <<>> THEN [pc |-> "company_rec", idx |-> idx]
    ELSE IF idx < Len(Companies) THEN [pc |-> "fetch_company", idx |-> idx + 1]
    ELSE [pc |-> "fetch_rss", idx |-> idx]

\* where the loop of line 175 goes once the entries q are left
AfterEntry(q) == IF q # <<>> THEN "rss_rec" ELSE "save"

\* fetch_filings(cik) returned the listing recs
FetchFilingsReturns(recs) ==
    LET name == Companies[idx]
        to == AfterFiling(recs)
    IN  /\ pc' = to.pc
        /\ idx' = to.idx
        /\ queue' = recs
        /\ hist' = [hist EXCEPT
                      !.attempted = @ \cup {name},
                      !.returned = @ \cup {name},
                      !.fetched = @ \cup { KeyOfFiling(name, recs[n]) : n \in DOMAIN recs }]
        /\ UNCHANGED <<seen, file, sent, stops, snippet, details>>

\* line 166: fetch_filings returns a listing
FetchFilings ==
    /\ pc = "fetch_company"
    /\ \E recs \in ListsOf(Companies[idx]) : FetchFilingsReturns(recs)

\* line 166: requests.get, raise_for_status or r.json() raises
FetchFilingsFails ==
    /\ pc = "fetch_company"
    /\ pc' = AfterException
    /\ queue' = <<>>
    /\ hist' = [hist EXCEPT !.attempted = @ \cup {Companies[idx]},
                            !.fails = @ \cup {"fetch"}]
    /\ UNCHANGED <<idx, seen, file, sent, stops, snippet, details>>

\* line 175: fetch_rss_entries returns the entries of the feed (none when
\* feedparser could not reach it)
FetchRss ==
    /\ pc = "fetch_rss"
    /\ \E recs \in ListsOf("RSS") :
          /\ pc' = AfterEntry(recs)
          /\ queue' = recs
          /\ hist' = [hist EXCEPT
                        !.attempted = @ \cup {"RSS"},
                        !.returned = @ \cup {"RSS"},
                        !.fetched = @ \cup { KeyOfEntry(recs[n]) : n \in DOMAIN recs }]
    /\ UNCHANGED <<idx, seen, file, sent, stops, snippet, details>>

\* line 175: feedparser.parse raises
FetchRssFails ==
    /\ pc = "fetch_rss"
    /\ pc' = AfterException
    /\ queue' = <<>>
    /\ hist' = [hist EXCEPT !.attempted = @ \cup {"RSS"},
                            !.fails = @ \cup {"fetch"}]
    /\ UNCHANGED <<idx, seen, file, sent, stops, snippet, details>>

\* line 80: feedparser.parse(EDGAR_RSS_URL) is given no timeout; the feed
\* accepts the connection and never answers, the call never returns
FetchRssHangs ==
    /\ pc = "fetch_rss"
    /\ pc' = "blocked"
    /\ hist' = [hist EXCEPT !.attempted = @ \cup {"RSS"}]
    /\ UNCHANGED <<idx, queue, seen, file, sent, stops, snippet, details>>

(***************************************************************************)
(* 4. NOTIFICATION FUNCTIONS.  What the outbound calls can do:             *)
(*   the document fetch of line 133: "ok" or "raise";                      *)
(*   requests.post of line 116: "ok" (accepted), "rejected" (an error      *)
(*   status: raise_for_status raises, lines 117-120 log it), "raise"      *)
(*   (the webhook cannot be reached), "hang" (the call is given no         *)
(*   timeout; the webhook never answers and the call never returns).       *)
(***************************************************************************)
DocResults == {"ok", "raise"}
PostResults == {"ok", "rejected", "raise", "hang"}

\* post_embed_to_discord, lines 101-120: how the call ends
PostEmbed(post) ==
    CASE post = "ok" -> "accepted"
      [] post = "rejected" -> "rejected"
      [] post = "raise" -> "post_raised"
      [] post = "hang" -> "post_hangs"

\* handle_company_filing, lines 126-141
HandleCompanyFiling(doc, post) ==
    IF doc = "raise" THEN "document_raised" ELSE PostEmbed(post)

\* handle_industry_entry, lines 144-155
HandleIndustryEntry(post) == PostEmbed(post)

Raised(outcome) == outcome \in {"document_raised", "post_raised"}
Hangs(outcome) == outcome = "post_hangs"

\* seen.add placed inside the if of lines 170 and 180
RecordedWhenNotified(outcome) == outcome \in {"accepted", "rejected"}

\* seen.add placed before the call of the notification function
RecordedBeforeHandling(outcome) ==
    outcome \in {"irrelevant", "accepted", "rejected", "document_raised", "post_raised"}

\* seen.add placed in a finally around post_embed_to_discord
RecordedAlsoWhenPostRaised(outcome) ==
    outcome \in {"irrelevant", "accepted", "rejected", "post_raised"}

\* the outcomes after which lines 172 and 182, seen.add(key), are reached
Recorded(outcome) == outcome \in {"irrelevant", "accepted", "rejected"}
Returned(outcome) == outcome \in {"accepted", "rejected"}
Posted(outcome) == outcome \in {"accepted", "rejected", "post_raised", "post_hangs"}

\* the body of the loops of lines 166-172 and 175-182 for one record:
\* key is its key, relevant the result of the relevance test, handled how
\* the notification function ends when it is called, to where the loop goes
ProcessRecord(key, relevant, handled, to) ==
    LET outcome == IF AlreadySeen(key, seen) THEN "skipped"
                   ELSE IF relevant THEN handled
                   ELSE "irrelevant"
    IN  /\ seen' = IF Recorded(outcome) THEN SeenAdd(seen, key) ELSE seen
        /\ sent' = IF outcome = "accepted"
                   THEN [sent EXCEPT ![key] = @ + 1] ELSE sent
        /\ pc' = IF Raised(outcome) THEN AfterException
                 ELSE IF Hangs(outcome) THEN "blocked"
                 ELSE to.pc
        /\ idx' = IF Raised(outcome) \/ Hangs(outcome) THEN idx ELSE to.idx
        /\ queue' = IF Raised(outcome) THEN <<>>
                    ELSE IF Hangs(outcome) THEN queue
                    ELSE Tail(queue)
        /\ hist' = [hist EXCEPT
                      !.posts = IF Posted(outcome) THEN @ + 1 ELSE @,
                      !.notified = IF Returned(outcome) THEN @ \cup {key} ELSE @,
                      !.gone = IF Recorded(outcome) THEN @ \cup {key} ELSE @,
                      !.fails = CASE outcome = "document_raised" -> @ \cup {"document"}
                                  [] outcome = "post_raised" -> @ \cup {"post"}
                                  [] outcome = "rejected" -> @ \cup {"rejected"}
                                  [] OTHER -> @]
        /\ UNCHANGED <<file, stops, snippet, details>>

\* lines 166-172, one filing of the listing
CompanyRecord ==
    /\ pc = "company_rec"
    /\ queue # <<>>
    /\ LET rec == Head(queue)
           key == KeyOfFiling(Companies[idx], rec)
       IN  \E doc \in DocResults, post \in PostResults :
              ProcessRecord(key, CompanyRelevant(rec[2]),
                            HandleCompanyFiling(doc, post),
                            AfterFiling(Tail(queue)))

\* lines 175-182, one entry of the feed
RssRecord ==
    /\ pc = "rss_rec"
    /\ queue # <<>>
    /\ LET entry == Head(queue)
       IN  \E post \in PostResults :
              ProcessRecord(KeyOfEntry(entry), RssRelevant(entry),
                            HandleIndustryEntry(post),
                            [pc |-> AfterEntry(Tail(queue)), idx |-> idx])

(***************************************************************************)
(* save_state, lines 51-54, called at line 184.                            *)
(***************************************************************************)
\* a dump of the keys added in this cycle only
SavedFileOfCycle(s) == GoodFile(JsonDump(s \ hist.start))

\* the content a completed save_state leaves in the file
SavedFile(s) == GoodFile(JsonDump(s))

\* save_state returns
SaveState ==
    /\ pc = "save"
    /\ file' = SavedFile(seen)
    /\ pc' = "sleep"
    /\ hist' = [hist EXCEPT !.saves = @ + 1]
    /\ UNCHANGED <<idx, queue, seen, sent, stops, snippet, details>>

\* open(STATE_FILE, 'w') raises: the file is as it was
SaveStateOpenFails ==
    /\ pc = "save"
    /\ pc' = AfterException
    /\ hist' = [hist EXCEPT !.saves = @ + 1, !.fails = @ \cup {"save"}]
    /\ UNCHANGED <<idx, queue, seen, file, sent, stops, snippet, details>>

\* json.dump raises after open truncated the file
SaveStateWriteFails ==
    /\ pc = "save"
    /\ file' = TornFile
    /\ pc' = AfterException
    /\ hist' = [hist EXCEPT !.saves = @ + 1, !.fails = @ \cup {"save"}]
    /\ UNCHANGED <<idx, queue, seen, sent, stops, snippet, details>>

\* line 188 and back to line 162: the sleep is over, the next cycle starts;
\* prev and unflushed are what the history keeps of the cycle that ended
WakeUp(prev, unflushed) ==
    /\ pc = "sleep"
    /\ pc' = "fetch_company"
    /\ idx' = 1
    /\ hist' = [NewHist(seen, prev) EXCEPT !.unflushed = unflushed]
    /\ UNCHANGED <<queue, seen, file, sent, stops, snippet, details>>

NextCycle == WakeUp(NoPrev, FALSE)

\* the same step, the history keeping what the cycle that ended fetched
NextCycleAfter == WakeUp(PrevOf(hist), FALSE)

\* whether, the cycle of history h over, a save_state has raised and none
\* has returned since
Unflushed(h) ==
    IF "save" \in h.fails THEN TRUE
    ELSE IF h.saves = 1 THEN FALSE
    ELSE h.unflushed

\* the same step, the history keeping whether a flush is still owed
NextCycleFlush == WakeUp(NoPrev, Unflushed(hist))

(***************************************************************************)
(* The process is stopped from outside, and started again.                 *)
(***************************************************************************)
Running == pc \notin {"down", "crashed"}

Stopped(f) ==
    /\ pc' = "down"
    /\ idx' = 1
    /\ queue' = <<>>
    /\ seen' = {}
    /\ file' = f
    /\ stops' = [n |-> stops.n + 1,
                 mid |-> stops.mid \/ pc # "sleep",
                 lost |-> stops.lost \/ ~(seen \subseteq Persisted(f))]
    /\ hist' = NewHist({}, NoPrev)
    /\ UNCHANGED <<sent, snippet, details>>

\* the process is stopped; the memory is gone, the file stays
Stop ==
    /\ Running
    /\ stops.n < MaxStops
    /\ Stopped(file)

\* the process is stopped inside save_state, between open and the end of
\* json.dump
StopInSave ==
    /\ pc = "save"
    /\ stops.n < MaxStops
    /\ Stopped(TornFile)

\* lines 44-48 and then main(): the process starts, loads the file and
\* enters its first cycle
Start ==
    /\ pc = "down"
    /\ ~LoadRaises(file)
    /\ pc' = "fetch_company"
    /\ seen' = LoadSeen(file)
    /\ hist' = NewHist(LoadSeen(file), NoPrev)
    /\ UNCHANGED <<idx, queue, file, sent, stops, snippet, details>>

\* lines 44-46: json.load raises, nothing catches it, the process ends
StartFails ==
    /\ pc = "down"
    /\ LoadRaises(file)
    /\ pc' = "crashed"
    /\ UNCHANGED <<idx, queue, seen, file, sent, stops, hist, snippet, details>>

\* a step of the cycle under way: a call returns or raises
CycleStep ==
    \/ FetchFilings
    \/ FetchFilingsFails
    \/ CompanyRecord
    \/ FetchRss
    \/ FetchRssFails
    \/ RssRecord
    \/ SaveState
    \/ SaveStateOpenFails
    \/ SaveStateWriteFails

Poll ==
    \/ CycleStep
    \/ FetchRssHangs
    \/ Stop
    \/ StopInSave
    \/ Start
    \/ StartFails

Next == Poll \/ NextCycle

Spec == Init /\ [][Next]_vars

\* the same program, the history of a cycle keeping what the cycle before it
\* fetched
NextAfter == Poll \/ NextCycleAfter

SpecAfter == Init /\ [][NextAfter]_vars

\* one process of the program, never stopped, the history of a cycle
\* keeping whether a save_state raised before it with none returned since
NextFlush == CycleStep \/ FetchRssHangs \/ NextCycleFlush

SpecFlush == Init /\ [][NextFlush]_vars

(***************************************************************************)
(* extract_offering_details on its own: called once with a text of         *)
(* Snippets.                                                               *)
(***************************************************************************)
InitExtract ==
    /\ pc = "extract"
    /\ snippet \in Snippets
    /\ details = NoDetails
    /\ idx = 1
    /\ queue = <<>>
    /\ file = NoFile
    /\ seen = {}
    /\ sent = [k \in AllKeys |-> 0]
    /\ stops = [n |-> 0, mid |-> FALSE, lost |-> FALSE]
    /\ hist = NewHist({}, NoPrev)

\* line 135: details = extract_offering_details(snippet)
Extract ==
    /\ pc = "extract"
    /\ pc' = "extracted"
    /\ details' = ExtractOfferingDetails(snippet)
    /\ UNCHANGED <<idx, queue, seen, file, sent, stops, hist, snippet>>

NextExtract == Extract

SpecExtract == InitExtract /\ [][NextExtract]_vars

(***************************************************************************)
(* Properties.                                                             *)
(***************************************************************************)
\* the cycle is over and no call of it failed
CleanCycle == pc = "sleep" /\ hist.fails = {} /\ hist.saves = 1

\* the key of the record the loop is about to go through
HeadKey ==
    IF pc = "company_rec" THEN KeyOfFiling(Companies[idx], Head(queue))
    ELSE KeyOfEntry(Head(queue))

\* a step of the loop body on one record
RecordStep == pc \in {"company_rec", "rss_rec"} /\ pc' \notin {"down", "blocked"}

\* C1: in one process, a cycle in which every source returns the record set
\* it returned in the cycle before sends no notification.
C1_SameRecordsSendNothing ==
    ( /\ hist.prev.ran
      /\ hist.prev.complete
      /\ hist.returned = Sources
      /\ hist.fetched = hist.prev.fetched )
    => hist.posts = 0

\* C2: with stops in Idle only, whatever ended the cycles, no key gets more
\* than one accepted notification.
C2_AtMostOneNotification ==
    ~stops.mid => \A k \in AllKeys : sent[k] <= 1

\* What holds of the program: with stops in Idle only, none of which lost
\* keys (at each stop the file held every key of seen), no key gets more than
\* one accepted notification.
AtMostOneNotificationIfNoKeyLost ==
    (~stops.mid /\ ~stops.lost) => \A k \in AllKeys : sent[k] <= 1

\* a process started again after a stop in Idle has fetched a key it notified
\* before the stop, and has left it alone
KeptAcrossRestart ==
    /\ stops.n > 0 /\ ~stops.mid /\ ~stops.lost
    /\ pc = "sleep"
    /\ \E k \in hist.fetched : k \in hist.start /\ sent[k] = 1

\* C3: when save_state has returned, a load of the file gives every key of
\* seen.
C3_FlushedKeysAreLoaded ==
    (pc = "sleep" /\ hist.saves = 1 /\ "save" \notin hist.fails)
    => (~LoadRaises(file) /\ seen \subseteq LoadSeen(file))

\* a flush has completed in a cycle that recorded keys on top of older ones
C3_Witness ==
    /\ pc = "sleep" /\ hist.saves = 1 /\ "save" \notin hist.fails
    /\ hist.start # {}
    /\ seen # hist.start

\* C4: a fetched filing that fails the relevance test is in seen when the
\* cycle that fetched it is over, and is never notified.
C4_IrrelevantRecordedNeverNotified ==
    /\ pc = "sleep" =>
          \A k \in hist.fetched : ~KeyRelevant(k) => k \in seen
    /\ \A k \in AllKeys : ~KeyRelevant(k) => sent[k] = 0

\* C5: a cycle in which a delivery failed (rejected, or the webhook not
\* reached) and no fetch failed has polled every source and has called
\* save_state.
C5_DeliveryFailureKeepsCycle ==
    ( /\ pc = "sleep"
      /\ hist.fails \cap {"rejected", "post"} # {}
      /\ hist.fails \cap {"fetch", "document"} = {} )
    => (hist.attempted = Sources /\ hist.saves = 1)

\* C6: after the loop body has gone through a record, whatever the relevance
\* test and the delivery gave, the key of the record is in seen.
C6_ProcessedKeyIsSeen ==
    [][(RecordStep /\ "document" \notin hist'.fails) => HeadKey \in seen']_vars

\* C7: a cycle in which a fetch of a source failed (and no notification
\* raised) has still polled every source.
C7_FetchFailureStopsOneSource ==
    ( /\ pc = "sleep"
      /\ "fetch" \in hist.fails
      /\ hist.fails \cap {"document", "post"} = {} )
    => hist.attempted = Sources

\* C8: after a cycle in which no call failed, the notifications sent are as
\* many as the fetched keys that were unseen at cycle start and are relevant,
\* and seen has grown by as many keys as were fetched and unseen at cycle
\* start.
C8_CleanCycleCounts ==
    CleanCycle =>
        LET new == hist.fetched \ hist.start
        IN  /\ hist.posts = Cardinality({ k \in new : KeyRelevant(k) })
            /\ hist.start \subseteq seen
            /\ Cardinality(seen) - Cardinality(hist.start) = Cardinality(new)

\* one new S-1 filing of Kraken and one new feed entry naming "blockchain":
\* two notifications, two new keys
C8_Witness ==
    /\ CleanCycle
    /\ hist.posts = 2
    /\ seen \ hist.start = { KeyOf(AllFilings[1]), KeyOf(AllFilings[2]) }
    /\ hist.fetched = seen \ hist.start

\* C9: no step of a running process takes a key out of seen, and a completed
\* save_state writes every key the file held before.
C9_SeenOnlyGrows ==
    [][ /\ (Running /\ pc' # "down") => seen \subseteq seen'
        /\ (file' # file /\ file'.kind = "valid")
              => Persisted(file) \subseteq Persisted(file') ]_vars

\* a flush has written keys of this cycle on top of keys of an earlier one
C9_Witness ==
    /\ pc = "sleep" /\ hist.saves = 1 /\ "save" \notin hist.fails
    /\ hist.start # {}
    /\ Cardinality(seen \ hist.start) >= 1
    /\ Persisted(file) = seen
    /\ Cardinality(seen) = Cardinality(AllKeys)

\* C10: a start of the process never fails: it reaches the loop, with an
\* empty seen when the file is missing or cannot be read.
C10_LoadNeverFails ==
    [][pc = "down" =>
          /\ pc' = "fetch_company"
          /\ (file.kind # "valid" => seen' = {})]_vars

\* C11: whatever happens while save_state runs (it returns, it raises, the
\* process is stopped), a load of the file afterwards succeeds and gives
\* either the set the file held before or the whole of seen.
C11_FlushIsAtomic ==
    [][pc = "save" =>
          /\ ~LoadRaises(file')
          /\ LoadSeen(file') \in {LoadSeen(file), seen}]_vars
\* C12: a save_state that raises leaves the process in the loop, asleep and
\* about to start the next cycle, with every key still in seen; and the first
\* save_state to return after one that raised leaves in the file every key
\* of seen, those recorded before this cycle (the cycles whose flush failed
\* among them) and those of this cycle.
C12_FlushAfterFailedFlush ==
    /\ "save" \in hist.fails =>
          /\ pc = "sleep"
          /\ ENABLED NextCycle
          /\ hist.start \subseteq seen
    /\ (pc = "sleep" /\ hist.saves = 1 /\ "save" \notin hist.fails /\ hist.unflushed)
          => /\ ~LoadRaises(file)
             /\ hist.start \subseteq LoadSeen(file)
             /\ LoadSeen(file) = seen

\* a flush has returned after one that raised, writing keys of the earlier
\* cycles and keys of its own cycle
C12_Witness ==
    /\ pc = "sleep" /\ hist.saves = 1 /\ "save" \notin hist.fails
    /\ hist.unflushed
    /\ hist.start # {}
    /\ seen # hist.start
    /\ Persisted(file) = seen
\* C13: a cycle calls save_state once, after the fetch of every source has
\* been called and every record gone through, and every cycle that is over
\* has called it, the cycles in which a fetch or a delivery failed too.
C13_OneFlushPerCycle ==
    /\ hist.saves <= 1
    /\ hist.saves = 1 => (pc = "sleep" /\ hist.attempted = Sources /\ queue = <<>>)
    /\ pc = "sleep" => hist.saves = 1
InCycle == pc \in {"fetch_company", "company_rec", "fetch_rss", "rss_rec", "save"}

\* what the step of the cycle at pc asks of the state besides pc
CanStep ==
    CASE pc = "fetch_company" -> idx \in DOMAIN Companies
      [] pc \in {"company_rec", "rss_rec"} -> queue # <<>>
      [] OTHER -> TRUE

\* the calls of a cycle that raise when they fail
RaisingKinds == {"fetch", "document", "post", "save"}

\* C14: the loop has no terminal state.  A cycle under way is never at a
\* step it cannot take; whatever a cycle raised (a fetch, a document fetch, a
\* delivery, the flush), the process is asleep in the loop and not ended;
\* asleep, it can always start the next cycle; and a process that has ended
\* ended at its start, before any cycle.  (A call that never returns raises
\* nothing: that is C16.)
C14_NoTerminalState ==
    /\ InCycle => CanStep
    /\ hist.fails \cap RaisingKinds # {} => pc = "sleep"
    /\ pc = "sleep" => ENABLED NextCycle
    /\ pc = "crashed" => hist = NewHist({}, NoPrev)

\* a process never stopped has run a cycle that recorded keys, then a cycle
\* that a fetch or a delivery that raised has ended, and is asleep again
C14_Witness ==
    /\ pc = "sleep"
    /\ stops.n = 0
    /\ hist.start # {}
    /\ hist.fails \cap {"fetch", "document", "post"} # {}
    /\ ENABLED NextCycle
\* C16: no call of a cycle waits for ever: a cycle under way is never inside
\* a call that cannot return, so it can always take a step towards the sleep
\* of the loop.
C16_EveryCallReturns ==
    (Running /\ pc # "sleep") => ENABLED CycleStep
\* C15: when the loop body goes through a new filing of a registration form
\* and the fetch of its document fails, the notification is still sent (one
\* more call of requests.post) and the key of the filing is in seen.
C15_DocumentFailureStillNotifies ==
    [][( /\ pc = "company_rec"
         /\ HeadKey \notin seen
         /\ CompanyRelevant(Head(queue)[2])
         /\ "document" \in hist'.fails
         /\ pc' # "down" )
       => /\ hist'.posts = hist.posts + 1
          /\ HeadKey \in seen']_vars
\* C18: when the loop body comes to a record whose key was in seen at the
\* start of the cycle, or is the key of a record it has gone through earlier
\* in this cycle, it skips the record: no call of requests.post, no document
\* fetch that could fail, nothing added to seen; and a call of requests.post
\* is only ever made for a key with no notification in this cycle yet.
C18_RepeatedKeySkipped ==
    [][(pc \in {"company_rec", "rss_rec"} /\ pc' # "down") =>
          /\ HeadKey \in hist.start \cup hist.gone =>
                /\ hist'.posts = hist.posts
                /\ hist'.fails = hist.fails
                /\ seen' = seen
                /\ sent' = sent
                /\ pc' \notin {"sleep", "blocked"}
          /\ hist'.posts # hist.posts =>
                HeadKey \notin hist.start \cup hist.gone \cup hist.notified]_vars

\* a listing holds the same relevant key twice; the first record has been
\* notified and recorded in this cycle, the second is the next to go through
C18_Witness ==
    /\ pc = "company_rec"
    /\ hist.start = {}
    /\ HeadKey \in hist.notified
    /\ HeadKey \in hist.gone
    /\ hist.posts = 1
    /\ hist.fetched = {HeadKey}

\* C19: in a running process, every relevant key that is in seen or in the
\* file and was not loaded at the start of the cycle has had its call of
\* requests.post made and returned.
C19_RecordedAfterNotified ==
    Running =>
        \A k \in (seen \cup Persisted(file)) \ hist.start :
            KeyRelevant(k) => k \in hist.notified

\* a relevant key whose notification the webhook rejected is in seen and in
\* the file
C19_Witness ==
    /\ pc = "sleep"
    /\ "rejected" \in hist.fails
    /\ \E k \in Persisted(file) \ hist.start :
          KeyRelevant(k) /\ k \in seen /\ k \in hist.notified /\ sent[k] = 0

\* C20: when the document fetch or the call of requests.post raises for a
\* new relevant filing, the cycle ends there: the process is asleep, the key
\* of the filing is not in seen, seen is as it was (the keys added earlier in
\* the cycle are kept), save_state has not been called and the file is as it
\* was; and the sleep adds nothing to seen, so that the next cycle finds the
\* key unseen.
C20_RaiseAbandonsCycle ==
    [][ /\ ( /\ pc \in {"company_rec", "rss_rec"}
             /\ hist'.fails \cap {"document", "post"} # {}
             /\ pc' # "down" )
          => /\ pc' = "sleep"
             /\ HeadKey \notin seen'
             /\ seen' = seen
             /\ hist.start \cup hist.gone \subseteq seen'
             /\ hist'.saves = 0
             /\ file' = file
        /\ (pc = "sleep" /\ pc' = "fetch_company") =>
              /\ seen' = seen
              /\ hist'.start = seen ]_vars

\* the webhook could not be reached for the second new key of a cycle: the
\* first is in seen, not in the file
C20_Witness ==
    /\ pc = "sleep"
    /\ "post" \in hist.fails
    /\ hist.saves = 0
    /\ hist.posts = 2
    /\ Cardinality(seen \ hist.start) = 1
    /\ ~(seen \subseteq Persisted(file))
\* the case of every item but the group's is ignored
IgnoreCaseOfLabel(re) ==
    [re EXCEPT !.items =
        [n \in DOMAIN re.items |->
            IF n > Len(re.items) - re.group THEN re.items[n]
            ELSE FoldItem(re.items[n])]]

\* the letters of s are all upper-case
AllUpper(s) == \A n \in DOMAIN s : s[n] \in Range(Upper)

\* C17: the dict extract_offering_details returns has the amount iff the
\* text holds the offering-price label (in any case) followed by a numeric
\* literal, and the ticker iff the text holds the ticker label (in any case)
\* followed by 1 to 5 upper-case letters, the ticker being those upper-case
\* letters; each decided without the other, a field not found left out, no
\* field when neither is there; and a text with "Maximum Aggregate Offering
\* Price: $5,000,000" and "Proposed Ticker Symbol: ABCD", each followed by a
\* space, gives "5,000,000" and "ABCD".
C17_FieldsAsLabeled ==
    pc = "extracted" =>
        LET amount == Search(IgnoreCaseOfLabel(AMOUNT_RE), snippet)
            ticker == Search(IgnoreCaseOfLabel(TICKER_RE), snippet)
        IN  /\ DOMAIN details \subseteq {"Amount", "Ticker"}
            /\ "Amount" \in DOMAIN details <=> amount.found
            /\ "Amount" \in DOMAIN details => details["Amount"] = amount.group
            /\ "Ticker" \in DOMAIN details <=> ticker.found
            /\ "Ticker" \in DOMAIN details =>
                  /\ details["Ticker"] = ticker.group
                  /\ AllUpper(details["Ticker"])
            /\ ( /\ Contains(snippet, AmountExample \o <<" ">>)
                 /\ Contains(snippet, TickerExample \o <<" ">>) ) =>
                  /\ DOMAIN details = {"Amount", "Ticker"}
                  /\ details["Amount"] = <<"5",",","0","0","0",",","0","0","0">>
                  /\ details["Ticker"] = <<"A","B","C","D">>
====
